---- MODULE Spec2Model ----
(***************************************************************************)
(* Token lifecycle of google_api (src/src/lib.rs): GoogleOAuthToken with   *)
(* from_config / ensure_validity / prompt_user_authentication /            *)
(* get_new_access_token / refresh_access_token / read_from_path /          *)
(* write_to_path, the callback listener thread, the browser and the token  *)
(* endpoint as environment.                                                *)
(***************************************************************************)
EXTENDS Integers, Sequences, FiniteSets, TLC

(* ------------------------------ bounds -------------------------------- *)
\* Seconds by which one step of the clock advances.
Quantum == 15
\* Number of clock steps the model follows.
MaxTicks == 3
\* Connections the browser may open to the callback address per launch.
MaxDeliveries == 2
\* Requests a Drive sends with the token it was built with.
MaxApiCalls == 1

MaxTime == MaxTicks * Quantum

(* ------------------------- program constants -------------------------- *)
\* rx.recv_timeout(Duration::from_secs(45))
RECV_TIMEOUT_SECS == 45
DEFAULT_DRIVE_SCOPE == "drive"

(* ------------------------ the credential record ----------------------- *)
\* GoogleOAuthToken::new(): every field empty, expires = SystemTime::now().
NewToken(t) ==
  [token |-> "", expires |-> t, code |-> "", refresh_token |-> "", scope |-> <<>>]

(* --------------------------- the config file -------------------------- *)
\* #[derive(Serialize)] with serde_json: an object with one member per field;
\* serde writes a SystemTime as its seconds and nanoseconds since the epoch.
\* The clock of the model counts whole seconds.
ToJson(r) ==
  [token |-> r.token,
   expires |-> [secs_since_epoch |-> r.expires, nanos_since_epoch |-> 0],
   code |-> r.code, refresh_token |-> r.refresh_token, scope |-> r.scope]

\* #[derive(Deserialize)]: the record of an object that has every member.
FromJson(d) ==
  [token |-> d.token, expires |-> d.expires.secs_since_epoch, code |-> d.code,
   refresh_token |-> d.refresh_token, scope |-> d.scope]

\* kind: "missing" (no file), "empty" (zero bytes), "garbage" (bytes that are
\* no credential record), "record" (the pretty JSON of data).
NoData == ToJson(NewToken(0))
FileMissing == [kind |-> "missing", data |-> NoData]
FileEmpty == [kind |-> "empty",   data |-> NoData]
FileGarbage == [kind |-> "garbage", data |-> NoData]
FileOf(r) == [kind |-> "record",  data |-> ToJson(r)]

(* ----------------------- inputs from the environment ------------------ *)
\* A captured callback request: its whitespace separated tokens; the second
\* token (the request target) is given by its query pairs <<name, value>>.
Target(q) == [query |-> q]
Req(q) == [tokens |-> 3, target |-> Target(q)]
Requests ==
  { Req(<< <<"code", "c1">> >>),
    Req(<< <<"state", "">>, <<"code", "c1">> >>),
    Req(<< <<"error", "access_denied">> >>),
    Req(<< <<"code", "c1">>, <<"error", "access_denied">> >>),
    Req(<<>>),
    [tokens |-> 1, target |-> Target(<<>>)] }

\* A token endpoint outcome: the transport failed, the body is no JSON, or a
\* JSON object whose members may be absent (has_* = FALSE).
ExpiresIn == {0, Quantum}
JsonResponses ==
  [kind : {"json"}, has_access : BOOLEAN, has_refresh : BOOLEAN, has_expires : BOOLEAN,
   access_token : {"", "t1"}, refresh_token : {"", "r1"}, expires_in : ExpiresIn]
Plain(k) ==
  [kind |-> k, has_access |-> FALSE, has_refresh |-> FALSE, has_expires |-> FALSE,
   access_token |-> "", refresh_token |-> "", expires_in |-> 0]
NoResponse == Plain("none")
Responses ==
  { Plain("transport_error"), Plain("not_json") } \cup
  { j \in JsonResponses :
      /\ (~j.has_access)  => j.access_token = ""
      /\ (~j.has_refresh) => j.refresh_token = ""
      /\ (~j.has_expires) => j.expires_in = 0 }

(* ------------------------------- state -------------------------------- *)
VARIABLES
  now,          \* SystemTime::now(), seconds
  pc,           \* position of the calling thread
  rec,          \* the GoogleOAuthToken in memory (auth / self)
  file,         \* the config file
  result,       \* outcome of the last Drive::new / from_config
  step,         \* corrective action in progress: none, consent, exchange, refresh
  listener,     \* listener thread of the flow in progress: none, spawned, bound, dead
  staleBound,   \* a thread of an earlier flow still holds 127.0.0.1:3000
  staleSpawned, \* a thread of an earlier flow is spawned and has not bound yet
  chan,         \* the mpsc channel of the flow in progress
  browser,      \* connections the launched browser may still open
  waitStart,    \* time at which recv_timeout started
  log,          \* requests, launches and writes of the call in progress, in order
  resp,         \* the token endpoint outcome being processed
  startNow,     \* time at which ensure_validity was entered
  startRec,     \* rec when ensure_validity was entered
  startFile,    \* file when ensure_validity was entered
  sent,         \* requests the Drive of the last call has sent with its token
  afterTimeout  \* the last call of this process ended with the timeout of recv_timeout

vars == << now, pc, rec, file, result, step, listener, staleBound, staleSpawned,
           chan, browser, waitStart, log, resp, startNow, startRec, startFile, sent,
           afterTimeout >>

NoResult == [kind |-> "none", msg |-> ""]
Ok == [kind |-> "ok", msg |-> ""]
Err(m) == [kind |-> "err", msg |-> m]
Panic(m) == [kind |-> "panic", msg |-> m]

Init ==
  /\ now = 0
  /\ pc = "idle"
  /\ rec = NewToken(0)
  /\ file \in {FileMissing, FileGarbage}
  /\ result = NoResult
  /\ step = "none"
  /\ listener = "none"
  /\ staleBound = FALSE
  /\ staleSpawned = FALSE
  /\ chan = <<>>
  /\ browser = 0
  /\ waitStart = 0
  /\ log = <<>>
  /\ resp = NoResponse
  /\ startNow = 0
  /\ startRec = NewToken(0)
  /\ startFile = FileMissing
  /\ sent = 0
  /\ afterTimeout = FALSE


(* ------------------------------ helpers ------------------------------- *)
\* What leaving prompt_user_authentication / ensure_validity does to the
\* listener thread: the receiver is dropped, the thread is not joined.
Abandon ==
  /\ listener' = "none"
  /\ chan' = <<>>
  /\ staleBound' = (staleBound \/ listener = "bound")
  /\ staleSpawned' = (staleSpawned \/ listener = "spawned")

\* from_config returns res to the caller of Drive::new.
Return(res) ==
  /\ result' = res
  /\ pc' = "idle"
  /\ step' = "none"
  /\ waitStart' = 0
  /\ afterTimeout' = (res = Err("timeout"))
  /\ Abandon

\* A panic of the calling thread (an unwrap on None / Err): the process ends,
\* and its threads with it.
Abort(res) ==
  /\ result' = res
  /\ pc' = "idle"
  /\ step' = "none"
  /\ waitStart' = 0
  /\ afterTimeout' = FALSE
  /\ listener' = "none"
  /\ chan' = <<>>
  /\ staleBound' = FALSE
  /\ staleSpawned' = FALSE

Logged(e) == log' = Append(log, e)

(* --------------------------- Credential store ------------------------- *)
\* serde_json::from_reader on the file's bytes (lines 244-247).
Decode_FilledOnGarbage(f, t) ==
  IF f.kind = "record" THEN FromJson(f.data)
  ELSE [NewToken(t) EXCEPT !.code = "c1", !.refresh_token = "r1"]
Decode(f, t) == IF f.kind = "record" THEN FromJson(f.data) ELSE NewToken(t)

\* The error read_from_path returns, "none" when it returns a record: creating
\* the directory or the file failed (lines 229-236), or opening the file that
\* exists failed (line 249). A file that does not parse is no error (line 246).
LoadError_OnGarbage(f, io_ok) ==
  IF f.kind \in {"empty", "garbage"} THEN "parse"
  ELSE IF io_ok THEN "none"
  ELSE IF f.kind = "missing" THEN "create" ELSE "open"
LoadError(f, io_ok) ==
  IF io_ok THEN "none"
  ELSE IF f.kind = "missing" THEN "create" ELSE "open"

\* Drive::new -> from_config -> read_from_path, then ensure_validity is entered.
ReadFromPath ==
  /\ pc = "idle"
  /\ log' = <<>>
  /\ \E io_ok \in BOOLEAN :
       IF LoadError(file, io_ok) = "none"
       THEN /\ file' = IF file.kind = "missing" THEN FileEmpty ELSE file
            /\ rec' = IF file.kind = "missing" THEN NewToken(now) ELSE Decode(file, now)
            /\ startRec' = rec'
            /\ startFile' = file'
            /\ startNow' = now
            /\ result' = NoResult
            /\ pc' = "ev_code"
            /\ UNCHANGED << step, listener, staleBound, staleSpawned, chan, waitStart, afterTimeout >>
       ELSE /\ Return([kind |-> "load_err", msg |-> LoadError(file, io_ok)])
            /\ UNCHANGED << rec, file, startNow, startRec, startFile >>
  /\ sent' = 0
  /\ UNCHANGED << now, browser, resp >>

\* write_to_path, first half (lines 257-273): create the file if missing, open
\* it with truncate(true).
WriteOpen ==
  /\ pc = "w_open"
  /\ \E io_ok \in BOOLEAN :
       IF io_ok
       THEN /\ file' = FileEmpty
            /\ Logged("write")
            /\ pc' = "w_flush"
            /\ UNCHANGED << result, step, listener, staleBound, staleSpawned, chan, waitStart, afterTimeout >>
       ELSE /\ Return(Err("storage"))
            /\ UNCHANGED << file, log >>
  /\ UNCHANGED << now, rec, browser, resp, startNow, startRec, startFile, sent >>

\* Where ensure_validity goes on once the write of a step has returned Ok.
AfterWrite(s) ==
  IF s = "consent" THEN "ev_refresh" ELSE IF s = "exchange" THEN "ev_expiry" ELSE "return"

\* write_to_path, second half (lines 275-278): serialise self into the
\* BufWriter, which is dropped without a flush() call. The JSON of a record
\* fits the buffer, so the bytes reach the file when the BufWriter is dropped,
\* and drop ignores a failed write: to_writer_pretty has returned Ok by then.
WriteFlush ==
  /\ pc = "w_flush"
  /\ \E written \in BOOLEAN : file' = IF written THEN FileOf(rec) ELSE file
  /\ IF AfterWrite(step) = "return"
     THEN Return(Ok)
     ELSE /\ pc' = AfterWrite(step)
          /\ step' = "none"
          /\ result' = result
          /\ IF step = "consent"
             THEN Abandon /\ waitStart' = 0 /\ UNCHANGED afterTimeout
             ELSE UNCHANGED << listener, staleBound, staleSpawned, chan, waitStart, afterTimeout >>
  /\ UNCHANGED << now, rec, browser, log, resp, startNow, startRec, startFile, sent >>

\* The process is killed between the truncating open and the write.
CrashDuringSave ==
  /\ pc = "w_flush"
  /\ Abort([kind |-> "crash", msg |-> ""])
  /\ UNCHANGED << now, rec, file, browser, log, resp, startNow, startRec, startFile, sent >>

(* --------------------------- ensure_validity -------------------------- *)
\* line 78
NeedsConsent_Never(r) == FALSE
NeedsConsent(r) == r.code = ""
\* line 84
NeedsExchange_Always(r) == TRUE
NeedsExchange(r) == r.refresh_token = ""
\* line 90
IsExpired_OrNow(r, t) == r.expires <= t
IsExpired(r, t) == r.expires < t

\* line 78
EnsureCode ==
  /\ pc = "ev_code"
  /\ pc' = IF NeedsConsent(rec) THEN "consent_open" ELSE "ev_refresh"
  /\ UNCHANGED << now, rec, file, result, step, listener, staleBound, staleSpawned,
                  chan, browser, waitStart, afterTimeout, log, resp, startNow, startRec, startFile, sent >>

\* line 84
EnsureRefresh ==
  /\ pc = "ev_refresh"
  /\ pc' = IF NeedsExchange(rec) THEN "exchange_send" ELSE "ev_expiry"
  /\ UNCHANGED << now, rec, file, result, step, listener, staleBound, staleSpawned,
                  chan, browser, waitStart, afterTimeout, log, resp, startNow, startRec, startFile, sent >>

\* lines 90-94
EnsureExpiry ==
  /\ pc = "ev_expiry"
  /\ IF IsExpired(rec, now)
     THEN /\ pc' = "refresh_send"
          /\ UNCHANGED << result, step, listener, staleBound, staleSpawned, chan, waitStart, afterTimeout >>
     ELSE Return(Ok)
  /\ UNCHANGED << now, rec, file, browser, log, resp, startNow, startRec, startFile, sent >>


(* ---------------------- prompt_user_authentication -------------------- *)
\* lines 109-114: record the scope, open the consent URL in the browser.
ConsentOpen ==
  /\ pc = "consent_open"
  /\ rec' = [rec EXCEPT !.scope = << DEFAULT_DRIVE_SCOPE >>]
  /\ Logged("browser")
  /\ \E opened \in BOOLEAN :
       IF opened
       THEN /\ browser' = MaxDeliveries
            /\ pc' = "consent_spawn"
            /\ UNCHANGED << result, step, listener, staleBound, staleSpawned, chan, waitStart, afterTimeout >>
       ELSE /\ Return(Err("open_browser"))
            /\ UNCHANGED browser
  /\ UNCHANGED << now, file, resp, startNow, startRec, startFile, sent >>

\* lines 117-132: create the channel, spawn the listener thread, start
\* rx.recv_timeout.
ConsentSpawn ==
  /\ pc = "consent_spawn"
  /\ listener' = "spawned"
  /\ chan' = <<>>
  /\ waitStart' = now
  /\ step' = "consent"
  /\ pc' = "consent_recv"
  /\ UNCHANGED << now, rec, file, result, staleBound, staleSpawned, browser, log,
                  resp, startNow, startRec, startFile, sent, afterTimeout >>

\* line 119 in the thread of the flow in progress: TcpListener::bind(..).unwrap().
PortHeld == staleBound
ListenerBind ==
  /\ listener = "spawned"
  /\ listener' = IF PortHeld THEN "dead" ELSE "bound"
  /\ UNCHANGED << now, pc, rec, file, result, step, staleBound, staleSpawned, chan,
                  browser, waitStart, afterTimeout, log, resp, startNow, startRec, startFile, sent >>

\* line 119 in a thread left behind by an earlier flow.
StaleBind ==
  /\ staleSpawned
  /\ staleSpawned' = FALSE
  /\ staleBound' = IF staleBound \/ listener = "bound" THEN staleBound ELSE TRUE
  /\ UNCHANGED << now, pc, rec, file, result, step, listener, chan, browser,
                  waitStart, afterTimeout, log, resp, startNow, startRec, startFile, sent >>

\* The browser connects to 127.0.0.1:3000 with request req. The thread that
\* holds the port serves it (lines 120-127); tx.send(..).unwrap() panics in a
\* thread whose receiver is gone; with no thread bound the connection is refused.
Redirect ==
  /\ browser > 0
  /\ browser' = browser - 1
  /\ \E req \in Requests :
       IF listener = "bound"
       THEN /\ chan' = Append(chan, req)
            /\ UNCHANGED staleBound
       ELSE /\ staleBound' = FALSE
            /\ UNCHANGED chan
  /\ UNCHANGED << now, pc, rec, file, result, step, listener, staleSpawned,
                  waitStart, afterTimeout, log, resp, startNow, startRec, startFile, sent >>

\* lines 136-140: the request has a second whitespace separated token.
HasTarget(req) == req.tokens >= 2
\* line 151: the url has a first query pair.
HasQuery(req) == Len(req.target.query) > 0
FirstPair_Named(req) ==
  LET q == req.target.query
  IN IF \E i \in DOMAIN q : q[i][1] \in {"code", "error"}
     THEN q[CHOOSE i \in DOMAIN q : q[i][1] \in {"code", "error"}
                                     /\ \A k \in 1..(i - 1) : q[k][1] \notin {"code", "error"}]
     ELSE Head(q)
FirstPair(req) == Head(req.target.query)
\* line 152
IsDenial_Never(pair) == FALSE
IsDenial(pair) == pair[1] = "error"
\* line 132: the 45 s of recv_timeout have elapsed.
TimedOut_AtOnce(start, t) == TRUE
TimedOut(start, t) == t - start >= RECV_TIMEOUT_SECS

\* line 132: recv_timeout returns the oldest message of the channel.
Received_Latest(ch) == ch[Len(ch)]
Received(ch) == Head(ch)

\* lines 132-156, Ok arm: take the first message of the channel and parse it.
RecvOk ==
  /\ pc = "consent_recv"
  /\ chan # <<>>
  /\ LET req == Received(chan) IN
       IF ~HasTarget(req) \/ ~HasQuery(req)
       THEN /\ Abort(Panic("unwrap"))
            /\ UNCHANGED << rec, log >>
       ELSE IF IsDenial(FirstPair(req))
       THEN /\ Return(Err(FirstPair(req)[2]))
            /\ UNCHANGED << rec, log >>
       ELSE /\ rec' = [rec EXCEPT !.code = FirstPair(req)[2]]
            /\ Logged("consent_ok")
            /\ chan' = Tail(chan)
            /\ pc' = "w_open"
            /\ UNCHANGED << result, step, listener, staleBound, staleSpawned, waitStart, afterTimeout >>
  /\ UNCHANGED << now, file, browser, resp, startNow, startRec, startFile, sent >>

\* lines 144-147, Err arm: RecvTimeoutError::Timeout.
RecvTimeout ==
  /\ pc = "consent_recv"
  /\ chan = <<>>
  /\ listener # "dead"
  /\ TimedOut(waitStart, now)
  /\ Return(Err("timeout"))
  /\ UNCHANGED << now, rec, file, browser, log, resp, startNow, startRec, startFile, sent >>

\* lines 144-147, Err arm: RecvTimeoutError::Disconnected, the listener thread
\* has panicked and dropped the sender.
RecvDisconnected ==
  /\ pc = "consent_recv"
  /\ chan = <<>>
  /\ listener = "dead"
  /\ Return(Err("disconnected"))
  /\ UNCHANGED << now, rec, file, browser, log, resp, startNow, startRec, startFile, sent >>

(* ---------------------------- token endpoint -------------------------- *)
Complete(j) == j.has_refresh /\ j.has_access /\ j.has_expires

\* lines 187-189: the three assignments in order, each ending in a panic when
\* its member is absent.
ApplyExchange(r, j, t) ==
  LET r1 == IF j.has_refresh
            THEN [r EXCEPT !.refresh_token = j.refresh_token] ELSE r
      r2 == IF j.has_refresh /\ j.has_access
            THEN [r1 EXCEPT !.token = j.access_token] ELSE r1
  IN IF Complete(j) THEN [r2 EXCEPT !.expires = t + j.expires_in] ELSE r2

\* lines 217-218
ApplyRefresh_TakesRefreshToken(r, j, t) ==
  [r EXCEPT !.token = j.access_token, !.expires = t + j.expires_in,
            !.refresh_token = j.refresh_token]
ApplyRefresh(r, j, t) ==
  LET r1 == IF j.has_access THEN [r EXCEPT !.token = j.access_token] ELSE r
  IN IF j.has_access /\ j.has_expires
     THEN [r1 EXCEPT !.expires = t + j.expires_in] ELSE r1

\* lines 167-178: the code exchange request is sent.
ExchangeSend ==
  /\ pc = "exchange_send"
  /\ Logged("exchange")
  /\ step' = "exchange"
  /\ pc' = "exchange_wait"
  /\ UNCHANGED << now, rec, file, result, listener, staleBound, staleSpawned, chan,
                  browser, waitStart, afterTimeout, resp, startNow, startRec, startFile, sent >>

\* lines 179-184: the outcome of the request; r.json().unwrap() panics on a
\* body that is no JSON.
ExchangeReceive ==
  /\ pc = "exchange_wait"
  /\ \E r \in Responses :
       IF r.kind = "transport_error"
       THEN /\ Return(Err("exchange"))
            /\ UNCHANGED resp
       ELSE IF r.kind = "not_json"
       THEN /\ Abort(Panic("unwrap"))
            /\ UNCHANGED resp
       ELSE /\ resp' = r
            /\ pc' = "exchange_parse"
            /\ UNCHANGED << result, step, listener, staleBound, staleSpawned, chan, waitStart, afterTimeout >>
  /\ UNCHANGED << now, rec, file, browser, log, startNow, startRec, startFile, sent >>

\* lines 186-192: update self from the response, then write_to_path.
ExchangeApply ==
  /\ pc = "exchange_parse"
  /\ rec' = ApplyExchange(rec, resp, now)
  /\ resp' = NoResponse
  /\ IF Complete(resp)
     THEN /\ pc' = "w_open"
          /\ UNCHANGED << result, step, listener, staleBound, staleSpawned, chan, waitStart, afterTimeout >>
     ELSE Abort(Panic("unwrap"))
  /\ UNCHANGED << now, file, browser, log, startNow, startRec, startFile, sent >>

\* lines 197-207: the refresh request is sent.
RefreshSend ==
  /\ pc = "refresh_send"
  /\ Logged("refresh")
  /\ step' = "refresh"
  /\ pc' = "refresh_wait"
  /\ UNCHANGED << now, rec, file, result, listener, staleBound, staleSpawned, chan,
                  browser, waitStart, afterTimeout, resp, startNow, startRec, startFile, sent >>

\* lines 209-214: the outcome of the request.
RefreshReceive ==
  /\ pc = "refresh_wait"
  /\ \E r \in Responses :
       IF r.kind = "transport_error"
       THEN /\ Return(Err("refresh"))
            /\ UNCHANGED resp
       ELSE IF r.kind = "not_json"
       THEN /\ Abort(Panic("unwrap"))
            /\ UNCHANGED resp
       ELSE /\ resp' = r
            /\ pc' = "refresh_parse"
            /\ UNCHANGED << result, step, listener, staleBound, staleSpawned, chan, waitStart, afterTimeout >>
  /\ UNCHANGED << now, rec, file, browser, log, startNow, startRec, startFile, sent >>

\* lines 216-221: update token and expires from the response, then write_to_path.
RefreshApply ==
  /\ pc = "refresh_parse"
  /\ rec' = ApplyRefresh(rec, resp, now)
  /\ resp' = NoResponse
  /\ IF resp.has_access /\ resp.has_expires
     THEN /\ pc' = "w_open"
          /\ UNCHANGED << result, step, listener, staleBound, staleSpawned, chan, waitStart, afterTimeout >>
     ELSE Abort(Panic("unwrap"))
  /\ UNCHANGED << now, file, browser, log, startNow, startRec, startFile, sent >>

(* -------------------------------- Drive ------------------------------- *)
\* Drive::get / post / patch / delete (lines 309-365): the request carries
\* "Bearer " + self.auth.token of the Drive that Drive::new returned; neither
\* the clock nor self.auth.expires is read.
DriveRequest ==
  /\ pc = "idle"
  /\ result = Ok
  /\ sent < MaxApiCalls
  /\ sent' = sent + 1
  /\ UNCHANGED << now, pc, rec, file, result, step, listener, staleBound, staleSpawned,
                  chan, browser, waitStart, afterTimeout, log, resp, startNow, startRec, startFile >>

(* ------------------------------ environment --------------------------- *)
\* The clock advances. recv_timeout returns no later than its deadline.
Tick ==
  /\ now < MaxTime
  /\ ~(pc = "consent_recv" /\ chan = <<>> /\ TimedOut(waitStart, now))
  /\ now' = now + Quantum
  /\ UNCHANGED << pc, rec, file, result, step, listener, staleBound, staleSpawned,
                  chan, browser, waitStart, afterTimeout, log, resp, startNow, startRec, startFile, sent >>

\* The process that called Drive::new ends: its threads end with it.
Exit ==
  /\ pc = "idle"
  /\ staleBound \/ staleSpawned
  /\ staleBound' = FALSE
  /\ staleSpawned' = FALSE
  /\ afterTimeout' = FALSE
  /\ UNCHANGED << now, pc, rec, file, result, step, listener, chan, browser,
                  waitStart, log, resp, startNow, startRec, startFile, sent >>

Next ==
  \/ ReadFromPath
  \/ EnsureCode
  \/ ConsentOpen
  \/ ConsentSpawn
  \/ ListenerBind
  \/ StaleBind
  \/ Redirect
  \/ RecvOk
  \/ RecvTimeout
  \/ RecvDisconnected
  \/ WriteOpen
  \/ WriteFlush
  \/ CrashDuringSave
  \/ EnsureRefresh
  \/ ExchangeSend
  \/ ExchangeReceive
  \/ ExchangeApply
  \/ EnsureExpiry
  \/ RefreshSend
  \/ RefreshReceive
  \/ RefreshApply
  \/ DriveRequest
  \/ Tick
  \/ Exit

Spec == Init /\ [][Next]_vars

TypeOK ==
  /\ now \in 0..MaxTime
  /\ pc \in {"idle", "ev_code", "consent_open", "consent_spawn", "consent_recv",
             "w_open", "w_flush", "ev_refresh", "exchange_send", "exchange_wait",
             "exchange_parse", "ev_expiry", "refresh_send", "refresh_wait",
             "refresh_parse"}
  /\ step \in {"none", "consent", "exchange", "refresh"}
  /\ listener \in {"none", "spawned", "bound", "dead"}
  /\ file.kind \in {"missing", "empty", "garbage", "record"}
  /\ browser \in 0..MaxDeliveries
  /\ Len(log) <= 7
  /\ sent \in 0..MaxApiCalls
  /\ afterTimeout \in BOOLEAN


(* ------------------------------- claims ------------------------------- *)
Count(seq, e) == Cardinality({ i \in DOMAIN seq : seq[i] = e })

\* ensure_validity was entered and the call has ended.
EvReturned == pc = "idle" /\ result.kind \notin {"none", "load_err"}

\* C1: a call on a record with a code, a refresh token and an expiry later than
\* the current time returns Ok, launches no browser, sends no request, writes
\* nothing and leaves the record as it was.
C1_ValidRecordIsLeftAlone ==
  ( /\ EvReturned
    /\ startRec.code # ""
    /\ startRec.refresh_token # ""
    /\ startRec.expires > now )
  => ( /\ result = Ok
       /\ log = <<>>
       /\ rec = startRec
       /\ file = startFile )

C1_Witness ==
  /\ EvReturned
  /\ startRec.code # ""
  /\ startRec.refresh_token # ""
  /\ startRec.expires > now
  /\ result = Ok
  /\ log = <<>>

\* C2: whenever the call returns Ok, the record then holds a non-empty token
\* whose expiry is strictly later than the current time.
C2_OkMeansUsableToken ==
  [][ (pc # "idle" /\ pc' = "idle" /\ result' = Ok)
      => (rec'.token # "" /\ rec'.expires > now') ]_vars

\* C3: within one call nothing of the exchange precedes anything of the
\* consent, nothing of the refresh precedes anything of the exchange or the
\* consent, and from a record without a code every exchange or refresh request
\* comes after the browser launch, the received code and its write.
Rank(e) ==
  IF e = "browser" \/ e = "consent_ok" THEN 1
  ELSE IF e = "exchange" THEN 2
  ELSE IF e = "refresh" THEN 3
  ELSE 0

C3_ConsentExchangeRefreshOrder ==
  /\ \A i, k \in DOMAIN log :
       (i < k /\ Rank(log[i]) > 0 /\ Rank(log[k]) > 0) => Rank(log[i]) <= Rank(log[k])
  /\ startRec.code = "" =>
       \A k \in DOMAIN log :
         log[k] \in {"exchange", "refresh"} =>
           \E i \in DOMAIN log :
             /\ i + 1 < k
             /\ log[i] = "consent_ok"
             /\ log[i + 1] = "write"
             /\ \E b \in DOMAIN log : b < i /\ log[b] = "browser"

C3_Witness ==
  /\ EvReturned
  /\ startRec.code = ""
  /\ Count(log, "browser") = 1
  /\ Count(log, "exchange") = 1
  /\ Count(log, "refresh") = 1

\* C4 as stated: from a record with a code and no refresh token the call
\* sends the exchange request once and no refresh request.
C4_ExchangeOnceNeverRefresh ==
  (EvReturned /\ startRec.code # "" /\ startRec.refresh_token = "")
  => (Count(log, "exchange") = 1 /\ Count(log, "refresh") = 0)

\* C4, amended: from a record with a code and no refresh token the call
\* sends the exchange request once and at most one refresh request, and the
\* refresh request only when the expiry the exchange has set is earlier than
\* the time read at the expiry check.
C4_ExchangeOnceRefreshOnlyIfExpired ==
  (startRec.code # "" /\ startRec.refresh_token = "" /\ result.kind # "load_err")
  => ( /\ Count(log, "exchange") <= 1
       /\ Count(log, "refresh") <= 1
       /\ Count(log, "browser") = 0
       /\ EvReturned => Count(log, "exchange") = 1
       /\ pc = "refresh_send" => (Count(log, "exchange") = 1 /\ rec.expires < now) )

C4_Witness ==
  /\ EvReturned
  /\ startRec.code # ""
  /\ startRec.refresh_token = ""
  /\ Count(log, "exchange") = 1
  /\ Count(log, "refresh") = 1

\* C5: from a record whose expiry is in the past and whose refresh
\* token is not empty the call sends the refresh request once, launches no
\* browser and sends no exchange request.
C5_ExpiredRefreshesOnce ==
  (EvReturned /\ startRec.refresh_token # "" /\ startRec.expires < startNow)
  => ( /\ Count(log, "refresh") = 1
       /\ Count(log, "browser") = 0
       /\ Count(log, "exchange") = 0 )

\* The wait of recv_timeout ends with nothing received.
WaitEndsEmpty == pc = "consent_recv" /\ chan = <<>> /\ pc' # pc

HeadIsDenial ==
  /\ chan # <<>>
  /\ Head(chan).tokens >= 2
  /\ Len(Head(chan).target.query) > 0
  /\ Head(chan).target.query[1][1] = "error"

\* C7: when the first query parameter of the received callback is
\* error=<reason>, the call returns the failure <reason>, the code stays empty
\* and the config file is as it was when the call began.
C7_DenialIsNotPersisted ==
  [][ (pc = "consent_recv" /\ HeadIsDenial /\ pc' # pc)
      => ( /\ pc' = "idle"
           /\ result' = Err(Head(chan).target.query[1][2])
           /\ rec'.code = ""
           /\ file' = startFile
           /\ Count(log', "write") = 0 ) ]_vars

C7_Witness ==
  /\ pc = "idle"
  /\ result = Err("access_denied")
  /\ rec.code = ""
  /\ file = startFile
  /\ Count(log, "browser") = 1

\* C8: when the exchange response lacks access_token, refresh_token or
\* expires_in, the call ends with an error value and neither the record in
\* memory nor the config file is changed.
C8_IncompleteExchangeIsAnError ==
  [][ (pc = "exchange_parse" /\ ~Complete(resp) /\ pc' # pc)
      => ( /\ pc' = "idle"
           /\ result'.kind = "err"
           /\ rec' = rec
           /\ file' = file ) ]_vars

\* C9: no failure inside the call ends in a panic of the calling thread, and
\* no request or launch is repeated within the call.
C9_FailuresAreReturnedNotRetried ==
  /\ result.kind # "panic"
  /\ Count(log, "browser") <= 1
  /\ Count(log, "exchange") <= 1
  /\ Count(log, "refresh") <= 1

\* C10: during a save over a file that holds a record, and after a crash in
\* that save, the config file holds the complete previous record or the
\* complete new record.
C10_SaveIsAtomic ==
  ( /\ pc = "w_flush" \/ result.kind = "crash"
    /\ Count(log, "write") = 1
    /\ startFile.kind = "record" )
  => (file = startFile \/ file = FileOf(rec))

\* A step's write_to_path returns Ok to ensure_validity.
SaveReturnsOk == pc = "w_flush" /\ pc' # pc /\ result'.kind # "crash"

\* C11: when the write that ends a consent, an exchange or a refresh has
\* returned Ok, and before the next action starts or the call returns, the
\* config file holds the record in memory, field for field.
C11_PersistedEqualsMemoryAfterStep ==
  [][ SaveReturnsOk => (file'.kind = "record" /\ FromJson(file'.data) = rec') ]_vars

\* A record that holds a refresh token holds a code.
RefreshImpliesCode(r) == r.refresh_token # "" => r.code # ""

\* C12: in every reachable state a non-empty refresh token comes with a
\* non-empty code, in the record in memory (of a process that has not
\* panicked) and in the record of the config file.
C12_RefreshTokenImpliesCode ==
  /\ result.kind \notin {"panic", "crash"} => RefreshImpliesCode(rec)
  /\ file.kind = "record" => RefreshImpliesCode(FromJson(file.data))

\* C13: every request a Drive sends with the stored token is sent at a time
\* earlier than the expiry of that token.
C13_RequestsCarryUnexpiredToken ==
  [][ sent' = sent + 1 => now < rec.expires ]_vars

\* The calling thread is inside the consent, the exchange or the refresh step.
InConsent == pc \in {"consent_open", "consent_spawn", "consent_recv"}
InExchange == pc \in {"exchange_send", "exchange_wait", "exchange_parse"}
InRefresh == pc \in {"refresh_send", "refresh_wait", "refresh_parse"}
Changed(f) == rec'[f] # rec[f]

\* C14: inside ensure_validity the code and the scope change only in the
\* consent step, the refresh token only in the exchange step, the token and
\* the expiry only in the exchange and the refresh step: a refresh leaves the
\* code, the scope and the refresh token as they were.
C14_StepsChangeOnlyTheirFields ==
  [][ pc # "idle"
      => ( /\ (Changed("code") \/ Changed("scope")) => InConsent
           /\ Changed("refresh_token") => InExchange
           /\ (Changed("token") \/ Changed("expires")) => (InExchange \/ InRefresh) ) ]_vars

C14_Witness ==
  /\ pc = "idle"
  /\ result = Ok
  /\ log = << "refresh", "write" >>
  /\ startRec.refresh_token # ""
  /\ rec.refresh_token = startRec.refresh_token
  /\ rec.code = startRec.code
  /\ rec.scope = startRec.scope
  /\ rec.token # startRec.token
  /\ rec.expires # startRec.expires

\* Drive::new has returned the error of read_from_path.
LoadFailed == pc = "idle" /\ result.kind = "load_err"

\* C15 as stated: read_from_path returns an error only when creating the
\* config directory or the config file has failed.
C15_LoadFailsOnlyOnCreate ==
  [][ (pc = "idle" /\ result' # result /\ result'.kind = "load_err")
      => (file.kind = "missing" /\ result'.msg = "create") ]_vars

\* C15, amended: read_from_path returns an error only when creating the
\* config directory or file has failed, or when opening the file that exists
\* has failed; a file that is missing, empty, unparsable or valid and that can
\* be created or opened yields a record.
C15_LoadFailsOnlyOnCreateOrOpen ==
  [][ (pc = "idle" /\ (pc' # pc \/ result' # result))
      => ( /\ result'.kind \in {"load_err", "none"}
           /\ result'.kind = "load_err"
                => ( /\ result'.msg \in {"create", "open"}
                     /\ result'.msg = "create" <=> file.kind = "missing"
                     /\ UNCHANGED << rec, file >> )
           /\ result'.kind = "none"
                => ( /\ pc' = "ev_code"
                     /\ rec' = IF file.kind = "record" THEN FromJson(file.data)
                               ELSE NewToken(now) ) ) ]_vars

C15_Witness ==
  /\ LoadFailed
  /\ result.msg = "open"
  /\ file.kind = "garbage"

\* The call in progress, or the last call, loaded a config file that exists
\* and holds no credential record.
LoadedUnparsable ==
  /\ startFile.kind \in {"empty", "garbage"}
  /\ result.kind # "load_err"
  /\ pc # "idle" \/ result.kind # "none"

\* C16: a config file that exists and does not parse is loaded as the record
\* of GoogleOAuthToken::new() (token, code and refresh token empty, no scope),
\* and the ensure_validity that follows begins with the consent step.
C16_UnparsableFileStartsFresh ==
  LoadedUnparsable
  => ( /\ startRec = NewToken(startNow)
       /\ startRec.token = "" /\ startRec.code = ""
       /\ startRec.refresh_token = "" /\ startRec.scope = <<>>
       /\ IF log = <<>> THEN pc \in {"ev_code", "consent_open"}
                        ELSE log[1] = "browser" )

C16_Witness ==
  /\ pc = "idle"
  /\ result = Ok
  /\ startFile.kind = "garbage"
  /\ startRec = NewToken(startNow)
  /\ log # <<>>
  /\ log[1] = "browser"
  /\ rec.code # ""

\* The last call returned Ok and its last write_to_path, which returned Ok,
\* saved the record that is still in memory.
SavedAndReturned == pc = "idle" /\ result = Ok /\ Count(log, "write") > 0

\* C17: the record loaded after a save is the record that was saved, field
\* for field, and saving what a load of the config file returns writes the
\* content the file already has.
C17_StoreRoundTrip ==
  [][ /\ (SavedAndReturned /\ pc' = "ev_code") => rec' = rec
      /\ file.kind = "record" => FileOf(Decode(file, now)) = file ]_vars

\* What the callback request req stands for: no code (the parse panics), a
\* denial with its reason, or a code.
Parsed(req) ==
  IF req.tokens < 2 \/ req.target.query = <<>> THEN [kind |-> "none", value |-> ""]
  ELSE IF req.target.query[1][1] = "error"
  THEN [kind |-> "denial", value |-> req.target.query[1][2]]
  ELSE [kind |-> "code", value |-> req.target.query[1][2]]

\* The browser opens a connection to the callback address.
Connects == browser' = browser - 1

\* C18: what the consent flow takes from the channel is the first request the
\* listener delivered, and only that one: the step that ends the wait sets the
\* code, or fails, as that request says, whatever was delivered after it; a
\* call receives at most once; and a connection made after the first delivery
\* changes neither the record in memory, nor the config file, nor the outcome
\* or the position of the call.
C18_OnlyFirstDeliveryCounts ==
  [][ /\ (pc = "consent_recv" /\ chan # <<>> /\ pc' # pc)
         => LET first == Parsed(chan[1]) IN
              /\ first.kind = "code"
                   => (pc' = "w_open" /\ rec' = [rec EXCEPT !.code = first.value])
              /\ first.kind = "denial"
                   => (pc' = "idle" /\ result' = Err(first.value) /\ rec' = rec)
              /\ first.kind = "none"
                   => (pc' = "idle" /\ result' = Panic("unwrap") /\ rec' = rec)
      /\ Count(log', "consent_ok") <= 1
      /\ (Connects /\ (chan # <<>> \/ pc # "consent_recv"))
         => UNCHANGED << rec, file, result, pc, step, log >> ]_vars

C18_Witness ==
  /\ pc = "w_open"
  /\ step = "consent"
  /\ rec.code = "c1"
  /\ chan # <<>>
  /\ Parsed(chan[1]).kind = "denial"

\* The request at the head of the channel has a target with a query.
HeadHasQuery ==
  /\ chan # <<>>
  /\ Head(chan).tokens >= 2
  /\ Len(Head(chan).target.query) > 0

\* C19: the callback is parsed by position. When the name of the first query
\* parameter is error the flow fails with that parameter's value; otherwise
\* the value of the first parameter becomes the code, whatever the name of
\* that parameter and whatever parameters follow it.
C19_CallbackParsedByPosition ==
  [][ (pc = "consent_recv" /\ HeadHasQuery /\ pc' # pc)
      => LET q == Head(chan).target.query IN
           IF q[1][1] = "error"
           THEN /\ pc' = "idle"
                /\ result' = Err(q[1][2])
                /\ rec'.code = rec.code
           ELSE /\ pc' = "w_open"
                /\ result' = result
                /\ rec'.code = q[1][2] ]_vars

C19_Witness ==
  /\ pc = "w_open"
  /\ step = "consent"
  /\ startRec.code = ""
  /\ rec.code = ""
  /\ rec.scope = << DEFAULT_DRIVE_SCOPE >>
  /\ log = << "browser", "consent_ok" >>

\* The browser of the flow in progress has been launched and the flow has not
\* ended.
AwaitingCallback == pc \in {"consent_spawn", "consent_recv"}

\* C20: every connection the browser makes after its launch, while the flow
\* waits, finds the listener bound and is delivered to the channel.
C20_NoCallbackLostAtStartup ==
  [][ (AwaitingCallback /\ Connects)
      => (listener = "bound" /\ Len(chan') = Len(chan) + 1) ]_vars

\* The listener thread of the flow in progress executes TcpListener::bind.
Binds == listener = "spawned" /\ listener' \in {"bound", "dead"}

\* C21: in a consent flow that follows, in the same process, a flow ended by
\* the timeout, the listener thread binds the callback address, and no
\* connection of the browser is served by the thread the earlier flow left
\* behind.
C21_FlowAfterTimeoutBindsAndReceives ==
  [][ /\ (afterTimeout /\ Binds) => listener' = "bound"
      /\ (afterTimeout /\ AwaitingCallback /\ Connects) => ~staleBound ]_vars

\* The call in progress, or the last call, loaded a config file whose record
\* holds a non-empty code.
LoadedPersistedCode ==
  /\ startFile.kind = "record"
  /\ FromJson(startFile.data).code # ""
  /\ result.kind # "load_err"
  /\ pc # "idle" \/ result.kind # "none"

\* C22: a call that begins with a non-empty code in the config file launches
\* no browser and leaves that code in memory as it is, and when the call has
\* ended (the process was not killed during a save) the config file still
\* holds a record with that code; from such a
\* record without a refresh token the call that has ended has sent the
\* exchange request, with that code.
C22_PersistedCodeIsNeverReplaced ==
  LoadedPersistedCode
  => ( /\ Count(log, "browser") = 0
       /\ rec.code = startRec.code
       /\ (pc = "idle" /\ result.kind # "crash")
            => ( /\ file.kind = "record"
                 /\ FromJson(file.data).code = startRec.code
                 /\ startRec.refresh_token = "" => Count(log, "exchange") = 1 ) )

====
